---- MODULE Spec2Model ----
(***************************************************************************)
(* Model of Pidroid's leveling subsystem (src/pidroid/utils/api.py):       *)
(*   - the UserLevels table and API.award_xp, one step per database        *)
(*     session, so that overlapping award_xp tasks interleave;             *)
(*   - the LevelRewards table and its range queries;                       *)
(*   - the RoleChangeQueue table with insert / fetch / delete;             *)
(*   - the Punishments table with its per-guild case counter, expiration   *)
(*     and the queries for active bans and jails.                          *)
(***************************************************************************)
EXTENDS Integers, Sequences, FiniteSets, TLC

VARIABLES
    user_levels,    \* UserLevels table: sequence of rows in storage order
    pc,             \* per award_xp task: the session it is about to run
    call,           \* per task: arguments (guild_id, member_id, amount)
    info,           \* per task: MemberLevelInfo read before leveling up
    new_insert,     \* per task: local flag of award_xp
    computed,       \* per task: new_xp / new_level / new_xp_to_next_level
    events,         \* client.dispatch log
    awards,         \* number of award_xp calls started
    awarded,        \* history: per row, sum of the amounts committed to it
    level_rewards,  \* LevelRewards table: set of rows
    next_reward_id, \* LevelRewards primary key sequence
    reward_query,   \* the last reward operation when it was a query, with its result
    reward_ops,     \* number of reward inserts, updates and deletes performed
    role_queue,     \* RoleChangeQueue table: set of rows
    next_queue_id,  \* RoleChangeQueue primary key sequence
    queue_call,     \* the last queue operation and its arguments
    fetched,        \* the result of the last fetch_role_changes
    deliveries,     \* history: per entry id, how many fetches returned it (up to 2)
    queue_ops,      \* number of queue inserts and deletes performed
    punishments,    \* Punishments table: set of rows
    counters,       \* PunishmentCounters table: per guild the counter, 0 for no row
    next_case_id,   \* Punishments primary key sequence
    now,            \* the clock read by utcnow()
    case_query,     \* the last punishment operation when it was a query, with its result
    case_ops        \* number of punishment inserts, updates and expirations started

xpVars == <<user_levels, pc, call, info, new_insert, computed, events, awards, awarded>>
rewardVars == <<level_rewards, next_reward_id, reward_query, reward_ops>>
queueVars == <<role_queue, next_queue_id, queue_call, fetched, deliveries, queue_ops>>
caseVars == <<punishments, counters, next_case_id, now, case_query, case_ops>>
vars == <<xpVars, rewardVars, queueVars, caseVars>>

----------------------------------------------------------------------------
(* Bounds *)

MaxAwards == 2

Tasks == {1, 2}
Guilds == {1, 2}
Members == {1, 2}
Amounts == {40, 60, 100, 300}
Roles == {7, 8}
Keys == {<<1, 1>>, <<1, 2>>, <<2, 1>>}

None == [none |-> TRUE]

----------------------------------------------------------------------------
(* UserLevels *)

\* Rows of the table that belong to (guild_id, user_id).
MemberRows(table, guild_id, user_id) ==
    {i \in DOMAIN table : table[i].guild_id = guild_id /\ table[i].user_id = user_id}

\* Mutant: xp_to_next_level has no default of its own and starts at 0.
MutDefaultLevelRowZeroThreshold(id, guild_id, user_id) ==
    [id |-> id, guild_id |-> guild_id, user_id |-> user_id,
     total_xp |-> 0, current_xp |-> 0, xp_to_next_level |-> 0, level |-> 0]

\* A new row with the server defaults of UserLevelsTable.
DefaultLevelRow(id, guild_id, user_id) ==
    [id |-> id, guild_id |-> guild_id, user_id |-> user_id,
     total_xp |-> 0, current_xp |-> 0, xp_to_next_level |-> 100, level |-> 0]

\* Mutant: the level is not squared.
MutXpToNextLevelNoSquare(level) == 5 * level + (50 * level) + 100

\* The Mee6 threshold of a level.
XpToNextLevel(level) == 5 * (level * level) + (50 * level) + 100

\* Mutant: the threshold is compared once, so at most one level is gained.
MutLevelUpOnce(new_xp, new_level, new_xp_to_next_level) ==
    IF new_xp >= new_xp_to_next_level
    THEN [new_xp |-> new_xp - new_xp_to_next_level, new_level |-> new_level + 1,
          new_xp_to_next_level |-> XpToNextLevel(new_level + 1)]
    ELSE [new_xp |-> new_xp, new_level |-> new_level,
          new_xp_to_next_level |-> new_xp_to_next_level]

\* Mutant: a level is gained only when the threshold is exceeded.
RECURSIVE MutLevelUpStrict(_, _, _)
MutLevelUpStrict(new_xp, new_level, new_xp_to_next_level) ==
    IF new_xp > new_xp_to_next_level
    THEN MutLevelUpStrict(new_xp - new_xp_to_next_level,
                          new_level + 1,
                          XpToNextLevel(new_level + 1))
    ELSE [new_xp |-> new_xp, new_level |-> new_level,
          new_xp_to_next_level |-> new_xp_to_next_level]

\* Mutant: the threshold is recomputed before it is subtracted.
RECURSIVE MutLevelUpSubtractNew(_, _, _)
MutLevelUpSubtractNew(new_xp, new_level, new_xp_to_next_level) ==
    IF new_xp >= new_xp_to_next_level
    THEN MutLevelUpSubtractNew(new_xp - XpToNextLevel(new_level + 1),
                               new_level + 1,
                               XpToNextLevel(new_level + 1))
    ELSE [new_xp |-> new_xp, new_level |-> new_level,
          new_xp_to_next_level |-> new_xp_to_next_level]

\* Mutant: a level costs half its threshold.
RECURSIVE MutLevelUpHalfPrice(_, _, _)
MutLevelUpHalfPrice(new_xp, new_level, new_xp_to_next_level) ==
    IF new_xp >= new_xp_to_next_level
    THEN MutLevelUpHalfPrice(new_xp - new_xp_to_next_level \div 2,
                              new_level + 1,
                              XpToNextLevel(new_level + 1))
    ELSE [new_xp |-> new_xp, new_level |-> new_level,
          new_xp_to_next_level |-> new_xp_to_next_level]

\* The level-up loop of award_xp.
RECURSIVE LevelUpLoop(_, _, _)
LevelUpLoop(new_xp, new_level, new_xp_to_next_level) ==
    IF new_xp >= new_xp_to_next_level
    THEN LevelUpLoop(new_xp - new_xp_to_next_level,
                     new_level + 1,
                     XpToNextLevel(new_level + 1))
    ELSE [new_xp |-> new_xp, new_level |-> new_level,
          new_xp_to_next_level |-> new_xp_to_next_level]

\* Mutant: the computation starts from level 0 instead of the level read.
MutComputeAwardFromLevelZero(read, amount) ==
    LevelUpLoop(read.current_xp + amount, 0, read.xp_to_next_level)

\* The triple award_xp computes from the state it read and the amount.
ComputeAward(read, amount) ==
    LevelUpLoop(read.current_xp + amount, read.level, read.xp_to_next_level)

\* Mutant: total_xp is written from the current_xp column.
MutUpdatedRowTotalFromCurrent(row, c, amount) ==
    [row EXCEPT !.current_xp = c.new_xp,
                !.xp_to_next_level = c.new_xp_to_next_level,
                !.total_xp = row.current_xp + amount,
                !.level = c.new_level]

\* Mutant: the level is recomputed from the stored row inside the UPDATE.
MutUpdatedRowFromStored(row, c, amount) ==
    [row EXCEPT !.current_xp = ComputeAward(row, amount).new_xp,
                !.xp_to_next_level = ComputeAward(row, amount).new_xp_to_next_level,
                !.total_xp = row.total_xp + amount,
                !.level = ComputeAward(row, amount).new_level]

\* Mutant: the UPDATE leaves xp_to_next_level as stored.
MutUpdatedRowKeepsThreshold(row, c, amount) ==
    [row EXCEPT !.current_xp = c.new_xp,
                !.total_xp = row.total_xp + amount,
                !.level = c.new_level]

\* The UPDATE statement of award_xp applied to one row.
UpdatedRow(row, c, amount) ==
    [row EXCEPT !.current_xp = c.new_xp,
                !.xp_to_next_level = c.new_xp_to_next_level,
                !.total_xp = row.total_xp + amount,
                !.level = c.new_level]

\* The UPDATE statement of award_xp applied to the table.
UpdateLevels(table, guild_id, member_id, c, amount) ==
    [i \in DOMAIN table |->
        IF i \in MemberRows(table, guild_id, member_id)
        THEN UpdatedRow(table[i], c, amount)
        ELSE table[i]]

\* Mutant: the new_insert flag is not consulted.
MutShouldDispatchLevelOnly(inserted, new_level, original_level) ==
    new_level # original_level

\* The condition under which award_xp dispatches pidroid_level_up.
ShouldDispatch(inserted, new_level, original_level) ==
    inserted \/ new_level # original_level

\* Mutant: the notified state keeps the total_xp that was read.
MutNewInfoStaleTotal(read, c, amount) ==
    [read EXCEPT !.current_xp = c.new_xp,
                 !.xp_to_next_level = c.new_xp_to_next_level,
                 !.level = c.new_level]

\* The MemberLevelInfo award_xp builds for the notification.
NewInfo(read, c, amount) ==
    [read EXCEPT !.total_xp = read.total_xp + amount,
                 !.current_xp = c.new_xp,
                 !.xp_to_next_level = c.new_xp_to_next_level,
                 !.level = c.new_level]

\* award_xp, first session: fetch_user_level_info.
AwardXpFetch(t, guild_id, member_id, amount) ==
    /\ pc[t] = "idle"
    /\ \A u \in Tasks : pc[u] = "idle" => t <= u
    /\ awards < MaxAwards
    /\ awards' = awards + 1
    /\ call' = [call EXCEPT ![t] =
                    [guild_id |-> guild_id, member_id |-> member_id, amount |-> amount]]
    /\ IF MemberRows(user_levels, guild_id, member_id) = {}
       THEN /\ pc' = [pc EXCEPT ![t] = "insert"]
            /\ new_insert' = [new_insert EXCEPT ![t] = TRUE]
            /\ info' = [info EXCEPT ![t] = None]
       ELSE /\ \E i \in MemberRows(user_levels, guild_id, member_id) :
                    info' = [info EXCEPT ![t] = user_levels[i]]
            /\ pc' = [pc EXCEPT ![t] = "update"]
            /\ new_insert' = [new_insert EXCEPT ![t] = FALSE]
    /\ computed' = [computed EXCEPT ![t] = None]
    /\ UNCHANGED <<user_levels, events, awarded, rewardVars, queueVars, caseVars>>

\* insert_member_level_info, first session: the INSERT.
InsertMemberLevelInfo(t) ==
    /\ pc[t] = "insert"
    /\ user_levels' = Append(user_levels,
            DefaultLevelRow(Len(user_levels) + 1, call[t].guild_id, call[t].member_id))
    /\ awarded' = Append(awarded, 0)
    /\ pc' = [pc EXCEPT ![t] = "refetch"]
    /\ UNCHANGED <<call, info, new_insert, computed, events, awards,
                   rewardVars, queueVars, caseVars>>

\* insert_member_level_info, second session: fetch_user_level_info again.
InsertRefetch(t) ==
    /\ pc[t] = "refetch"
    /\ \E i \in MemberRows(user_levels, call[t].guild_id, call[t].member_id) :
            info' = [info EXCEPT ![t] = user_levels[i]]
    /\ pc' = [pc EXCEPT ![t] = "update"]
    /\ UNCHANGED <<user_levels, call, new_insert, computed, events, awards, awarded,
                   rewardVars, queueVars, caseVars>>

\* award_xp: the level computation and the UPDATE session.
AwardXpUpdate(t) ==
    /\ pc[t] = "update"
    /\ LET c == ComputeAward(info[t], call[t].amount) IN
        /\ computed' = [computed EXCEPT ![t] = c]
        /\ user_levels' = UpdateLevels(user_levels, call[t].guild_id,
                                       call[t].member_id, c, call[t].amount)
    /\ awarded' = [i \in DOMAIN awarded |->
            IF i \in MemberRows(user_levels, call[t].guild_id, call[t].member_id)
            THEN awarded[i] + call[t].amount
            ELSE awarded[i]]
    /\ pc' = [pc EXCEPT ![t] = "dispatch"]
    /\ UNCHANGED <<call, info, new_insert, events, awards, rewardVars, queueVars, caseVars>>

\* award_xp: the conditional dispatch after the commit.
AwardXpDispatch(t) ==
    /\ pc[t] = "dispatch"
    /\ events' =
        IF ShouldDispatch(new_insert[t], computed[t].new_level, info[t].level)
        THEN Append(events,
                [name |-> "pidroid_level_up", old |-> info[t],
                 new |-> NewInfo(info[t], computed[t], call[t].amount)])
        ELSE events
    /\ pc' = [pc EXCEPT ![t] = "idle"]
    /\ call' = [call EXCEPT ![t] = None]
    /\ info' = [info EXCEPT ![t] = None]
    /\ new_insert' = [new_insert EXCEPT ![t] = FALSE]
    /\ computed' = [computed EXCEPT ![t] = None]
    /\ UNCHANGED <<user_levels, awards, awarded, rewardVars, queueVars, caseVars>>

\* award_xp: the first fetch_user_level_info raises; nothing was read or written.
AwardXpFetchRaises(t) ==
    /\ pc[t] = "idle"
    /\ \A u \in Tasks : pc[u] = "idle" => t <= u
    /\ awards < MaxAwards
    /\ awards' = awards + 1
    /\ UNCHANGED <<user_levels, pc, call, info, new_insert, computed, events, awarded,
                   rewardVars, queueVars, caseVars>>

\* award_xp: the session task t is about to run (the INSERT, the second fetch
\* or the UPDATE) raises. Its transaction is rolled back, the exception leaves
\* award_xp, which has no handler, and the sessions committed before stay
\* committed.
AwardXpRaises(t) ==
    /\ pc[t] \in {"insert", "refetch", "update"}
    /\ pc' = [pc EXCEPT ![t] = "idle"]
    /\ call' = [call EXCEPT ![t] = None]
    /\ info' = [info EXCEPT ![t] = None]
    /\ new_insert' = [new_insert EXCEPT ![t] = FALSE]
    /\ computed' = [computed EXCEPT ![t] = None]
    /\ UNCHANGED <<user_levels, events, awards, awarded, rewardVars, queueVars, caseVars>>

\* award_xp, lines 1108-1116: the locals of the loop before its first test.
LoopEnter(t) ==
    /\ pc[t] = "update"
    /\ computed' = [computed EXCEPT ![t] =
            [new_xp |-> info[t].current_xp + call[t].amount,
             new_level |-> info[t].level,
             new_xp_to_next_level |-> info[t].xp_to_next_level]]
    /\ pc' = [pc EXCEPT ![t] = "loop"]
    /\ UNCHANGED <<user_levels, call, info, new_insert, events, awards, awarded,
                   rewardVars, queueVars, caseVars>>

\* Mutant: an iteration keeps the threshold it has just passed.
MutLoopIterateKeepsThreshold(t) ==
    /\ pc[t] = "loop"
    /\ computed[t].new_xp >= computed[t].new_xp_to_next_level
    /\ computed' = [computed EXCEPT ![t] =
            [new_xp |-> computed[t].new_xp - computed[t].new_xp_to_next_level,
             new_level |-> computed[t].new_level + 1,
             new_xp_to_next_level |-> computed[t].new_xp_to_next_level]]
    /\ UNCHANGED <<user_levels, pc, call, info, new_insert, events, awards, awarded,
                   rewardVars, queueVars, caseVars>>

\* award_xp, lines 1119-1124: one iteration of the loop whose test succeeds.
LoopIterate(t) ==
    /\ pc[t] = "loop"
    /\ computed[t].new_xp >= computed[t].new_xp_to_next_level
    /\ computed' = [computed EXCEPT ![t] =
            [new_xp |-> computed[t].new_xp - computed[t].new_xp_to_next_level,
             new_level |-> computed[t].new_level + 1,
             new_xp_to_next_level |-> XpToNextLevel(computed[t].new_level + 1)]]
    /\ UNCHANGED <<user_levels, pc, call, info, new_insert, events, awards, awarded,
                   rewardVars, queueVars, caseVars>>

\* award_xp, lines 1125-1143: the test fails, the loop breaks and the UPDATE
\* session writes the locals.
LoopExit(t) ==
    /\ pc[t] = "loop"
    /\ computed[t].new_xp < computed[t].new_xp_to_next_level
    /\ user_levels' = UpdateLevels(user_levels, call[t].guild_id, call[t].member_id,
                                   computed[t], call[t].amount)
    /\ awarded' = [i \in DOMAIN awarded |->
            IF i \in MemberRows(user_levels, call[t].guild_id, call[t].member_id)
            THEN awarded[i] + call[t].amount
            ELSE awarded[i]]
    /\ pc' = [pc EXCEPT ![t] = "dispatch"]
    /\ UNCHANGED <<call, info, new_insert, computed, events, awards,
                   rewardVars, queueVars, caseVars>>

\* award_xp on a stored row with the loop taken one iteration at a time.
AwardXpLoop ==
    \/ \E t \in Tasks, a \in Amounts : AwardXpFetch(t, 1, 1, a)
    \/ \E t \in Tasks : LoopEnter(t)
    \/ \E t \in Tasks : LoopIterate(t)
    \/ \E t \in Tasks : LoopExit(t)
    \/ \E t \in Tasks : AwardXpDispatch(t)

\* award_xp calls for a member whose row is already stored.
AwardXpStored ==
    \/ \E t \in Tasks, a \in Amounts : AwardXpFetch(t, 1, 1, a)
    \/ \E t \in Tasks : AwardXpUpdate(t)
    \/ \E t \in Tasks : AwardXpDispatch(t)

\* award_xp calls of which each starts after the one before has returned.
AwardXpSequential ==
    \/ \E t \in Tasks, k \in Keys, a \in Amounts :
            (\A u \in Tasks : pc[u] = "idle") /\ AwardXpFetch(t, k[1], k[2], a)
    \/ \E t \in Tasks : InsertMemberLevelInfo(t)
    \/ \E t \in Tasks : InsertRefetch(t)
    \/ \E t \in Tasks : AwardXpUpdate(t)
    \/ \E t \in Tasks : AwardXpDispatch(t)

AwardXp ==
    \/ \E t \in Tasks, k \in Keys, a \in Amounts : AwardXpFetch(t, k[1], k[2], a)
    \/ \E t \in Tasks : InsertMemberLevelInfo(t)
    \/ \E t \in Tasks : InsertRefetch(t)
    \/ \E t \in Tasks : AwardXpUpdate(t)
    \/ \E t \in Tasks : AwardXpDispatch(t)

----------------------------------------------------------------------------
(* RoleChangeQueue *)

MaxQueueOps == 3

\* (action, guild_id, member_id, role_id) of the role changes enqueued;
\* action 1 grants the role, action 0 revokes it.
QueueInserts == {<<1, 1, 1, 7>>, <<0, 1, 1, 7>>, <<1, 1, 2, 8>>, <<0, 1, 1, 8>>, <<1, 2, 1, 7>>}

NoCall == [op |-> "none"]

\* The row insert_role_change adds.
RoleChangeRow(id, action, guild_id, member_id, role_id) ==
    [id |-> id, action |-> action, status |-> "enqueued",
     guild_id |-> guild_id, member_id |-> member_id, role_id |-> role_id]

\* Mutant: a role with a pending change of the other action is left out.
MutArrayAggRolesNet(group, action) ==
    [r \in {e.role_id : e \in {x \in group : x.action = action}} \
            {e.role_id : e \in {x \in group : x.action # action}} |->
        Cardinality({e \in group : e.action = action /\ e.role_id = r})]

\* array_agg(role_id) FILTER (action = ...) over a group: the role ids with
\* their multiplicities (the order of the array is not specified; the NULL of
\* an aggregate over no row is the array without elements).
ArrayAggRoles(group, action) ==
    [r \in {e.role_id : e \in {x \in group : x.action = action}} |->
        Cardinality({e \in group : e.action = action /\ e.role_id = r})]

\* Mutant: the guild filter is missing.
MutGuildEntriesAll(table, guild_id) == table

\* The rows the WHERE clause of fetch_role_changes selects.
GuildEntries(table, guild_id) == {e \in table : e.guild_id = guild_id}

\* The SELECT ... GROUP BY member_id of fetch_role_changes.
GroupByMember(table, guild_id) ==
    {[guild_id |-> guild_id,
      member_id |-> m,
      ids |-> {e.id : e \in {x \in GuildEntries(table, guild_id) : x.member_id = m}},
      roles_added |->
        ArrayAggRoles({x \in GuildEntries(table, guild_id) : x.member_id = m}, 1),
      roles_removed |->
        ArrayAggRoles({x \in GuildEntries(table, guild_id) : x.member_id = m}, 0)] :
     m \in {e.member_id : e \in GuildEntries(table, guild_id)}}

\* Mutant: every entry of a member named by one of the ids is deleted.
MutDeleteByMember(table, ids) ==
    {e \in table :
        ~ \E d \in table : d.id \in ids /\ d.guild_id = e.guild_id
                                        /\ d.member_id = e.member_id}

\* The DELETE ... WHERE id IN (ids) of delete_role_changes.
DeleteByIds(table, ids) == {e \in table : e.id \notin ids}

\* Mutant: a change that is already enqueued is not enqueued again.
MutInsertRoleChangeDedup(action, guild_id, member_id, role_id) ==
    /\ queue_ops < MaxQueueOps
    /\ role_queue' =
        IF \E e \in role_queue : /\ e.action = action /\ e.guild_id = guild_id
                                 /\ e.member_id = member_id /\ e.role_id = role_id
        THEN role_queue
        ELSE role_queue \cup
                {RoleChangeRow(next_queue_id, action, guild_id, member_id, role_id)}
    /\ next_queue_id' = next_queue_id + 1
    /\ queue_call' = [op |-> "insert", id |-> next_queue_id, action |-> action,
                       guild_id |-> guild_id, member_id |-> member_id,
                       role_id |-> role_id]
    /\ queue_ops' = queue_ops + 1
    /\ deliveries' = Append(deliveries, 0)
    /\ UNCHANGED <<fetched, xpVars, rewardVars, caseVars>>

InsertRoleChange(action, guild_id, member_id, role_id) ==
    /\ queue_ops < MaxQueueOps
    /\ role_queue' = role_queue \cup
            {RoleChangeRow(next_queue_id, action, guild_id, member_id, role_id)}
    /\ next_queue_id' = next_queue_id + 1
    /\ queue_call' = [op |-> "insert", id |-> next_queue_id, action |-> action,
                       guild_id |-> guild_id, member_id |-> member_id,
                       role_id |-> role_id]
    /\ queue_ops' = queue_ops + 1
    /\ deliveries' = Append(deliveries, 0)
    /\ UNCHANGED <<fetched, xpVars, rewardVars, caseVars>>

\* insert_role_change raises: the transaction is rolled back and no row is
\* added; the id sequence may or may not have been advanced by the flush.
InsertRoleChangeRaises(action, guild_id, member_id, role_id) ==
    /\ queue_ops < MaxQueueOps
    /\ role_queue' = role_queue
    /\ \/ /\ next_queue_id' = next_queue_id
          /\ deliveries' = deliveries
       \/ /\ next_queue_id' = next_queue_id + 1
          /\ deliveries' = Append(deliveries, 0)
    /\ queue_call' = [op |-> "insert_raised", action |-> action,
                       guild_id |-> guild_id, member_id |-> member_id,
                       role_id |-> role_id]
    /\ queue_ops' = queue_ops + 1
    /\ UNCHANGED <<fetched, xpVars, rewardVars, caseVars>>

\* Mutant: the fetch marks what it returns as being processed.
MutFetchRoleChangesMarks(guild_id) ==
    /\ fetched' = GroupByMember(role_queue, guild_id)
    /\ role_queue' = {IF e.guild_id = guild_id
                      THEN [e EXCEPT !.status = "processing"]
                      ELSE e : e \in role_queue}
    /\ queue_call' = [op |-> "fetch", guild_id |-> guild_id]
    /\ deliveries' = [id \in DOMAIN deliveries |->
            IF (\E c \in fetched' : id \in c.ids) /\ deliveries[id] < 2
            THEN deliveries[id] + 1
            ELSE deliveries[id]]
    /\ UNCHANGED <<next_queue_id, queue_ops, xpVars, rewardVars, caseVars>>

\* Mutant: the fetch removes what it returns.
MutFetchRoleChangesPop(guild_id) ==
    /\ fetched' = GroupByMember(role_queue, guild_id)
    /\ role_queue' = {e \in role_queue : e.guild_id # guild_id}
    /\ queue_call' = [op |-> "fetch", guild_id |-> guild_id]
    /\ deliveries' = [id \in DOMAIN deliveries |->
            IF (\E c \in fetched' : id \in c.ids) /\ deliveries[id] < 2
            THEN deliveries[id] + 1
            ELSE deliveries[id]]
    /\ UNCHANGED <<next_queue_id, queue_ops, xpVars, rewardVars, caseVars>>

FetchRoleChanges(guild_id) ==
    /\ fetched' = GroupByMember(role_queue, guild_id)
    /\ queue_call' = [op |-> "fetch", guild_id |-> guild_id]
    /\ deliveries' = [id \in DOMAIN deliveries |->
            IF (\E c \in fetched' : id \in c.ids) /\ deliveries[id] < 2
            THEN deliveries[id] + 1
            ELSE deliveries[id]]
    /\ UNCHANGED <<role_queue, next_queue_id, queue_ops, xpVars, rewardVars, caseVars>>

\* Mutant: the statement fails when one of the ids is not in the table.
MutDeleteRoleChangesStrict(ids) ==
    /\ queue_ops < MaxQueueOps
    /\ ids \subseteq {e.id : e \in role_queue}
    /\ role_queue' = DeleteByIds(role_queue, ids)
    /\ queue_call' = [op |-> "delete", ids |-> ids,
                       again |-> queue_call.op = "delete" /\ queue_call.ids = ids]
    /\ queue_ops' = queue_ops + 1
    /\ UNCHANGED <<next_queue_id, fetched, deliveries, xpVars, rewardVars, caseVars>>

\* queue_call.again records that the preceding operation was a delete of the
\* same ids.
DeleteRoleChanges(ids) ==
    /\ queue_ops < MaxQueueOps
    /\ role_queue' = DeleteByIds(role_queue, ids)
    /\ queue_call' = [op |-> "delete", ids |-> ids,
                       again |-> queue_call.op = "delete" /\ queue_call.ids = ids]
    /\ queue_ops' = queue_ops + 1
    /\ UNCHANGED <<next_queue_id, fetched, deliveries, xpVars, rewardVars, caseVars>>

NextQueue ==
    \/ \E a \in QueueInserts : InsertRoleChange(a[1], a[2], a[3], a[4])
    \/ \E g \in Guilds : FetchRoleChanges(g)
    \/ \E ids \in SUBSET (1..next_queue_id) : DeleteRoleChanges(ids)

----------------------------------------------------------------------------
(* LevelRewards *)

MaxRewardOps == 3

\* (guild_id, role_id, level) of the rewards inserted, (role_id, level) of the
\* values written by updates, and the levels queried.
RewardInserts == {<<1, 7, 5>>, <<1, 8, 10>>, <<1, 7, 20>>, <<1, 8, 5>>, <<2, 8, 10>>}
RewardUpdates == {<<7, 20>>, <<8, 5>>}
QueryLevels == {3, 7, 20}

NoQuery == [op |-> "none"]

\* fetch_level_reward_by_id: the row with that id, or None.
RewardById(table, id) ==
    IF \E r \in table : r.id = id
    THEN CHOOSE r \in table : r.id = id
    ELSE None

\* The rows a statement ordered by level descending can return first.
FirstLevelDesc(rows) == {r \in rows : \A q \in rows : q.level <= r.level}

\* Mutant: the comparison is strict.
MutEligibleRowsStrict(table, guild_id, level) ==
    {r \in table : r.guild_id = guild_id /\ r.level < level}

\* The WHERE clause of fetch_eligible_level_rewards_for_level.
EligibleRows(table, guild_id, level) ==
    {r \in table : r.guild_id = guild_id /\ r.level <= level}

\* Mutant: the comparison is not strict.
MutPreviousRowsInclusive(table, guild_id, level) ==
    {r \in table : r.guild_id = guild_id /\ r.level <= level}

\* The WHERE clause of _fetch_previous_level_reward.
PreviousRows(table, guild_id, level) ==
    {r \in table : r.guild_id = guild_id /\ r.level < level}

\* The WHERE clause of _fetch_next_level_reward.
NextRows(table, guild_id, level) ==
    {r \in table : r.guild_id = guild_id /\ r.level > level}

\* The outcome of a query: its first row, or None when it selects no row.
QueryResult(op, guild_id, level, rows, first) ==
    /\ IF rows = {}
       THEN reward_query' = [op |-> op, guild_id |-> guild_id, level |-> level,
                             found |-> FALSE, result |-> None]
       ELSE \E r \in first :
               reward_query' = [op |-> op, guild_id |-> guild_id, level |-> level,
                                found |-> TRUE, result |-> r]
    /\ UNCHANGED <<level_rewards, next_reward_id, reward_ops, xpVars, queueVars, caseVars>>

InsertLevelReward(guild_id, role_id, level) ==
    /\ reward_ops < MaxRewardOps
    /\ LET entry == [id |-> next_reward_id, guild_id |-> guild_id,
                     level |-> level, role_id |-> role_id] IN
        /\ level_rewards' = level_rewards \cup {entry}
        /\ events' = Append(events,
                [name |-> "pidroid_level_reward_add",
                 reward |-> RewardById(level_rewards', entry.id)])
    /\ next_reward_id' = next_reward_id + 1
    /\ reward_ops' = reward_ops + 1
    /\ reward_query' = NoQuery
    /\ UNCHANGED <<user_levels, pc, call, info, new_insert, computed,
                   awards, awarded, queueVars, caseVars>>

UpdateLevelRewardById(id, role_id, level) ==
    /\ reward_ops < MaxRewardOps
    /\ level_rewards' =
            {IF r.id = id THEN [r EXCEPT !.role_id = role_id, !.level = level] ELSE r :
             r \in level_rewards}
    /\ reward_ops' = reward_ops + 1
    /\ reward_query' = NoQuery
    /\ UNCHANGED <<next_reward_id, xpVars, queueVars, caseVars>>

DeleteLevelReward(id) ==
    /\ reward_ops < MaxRewardOps
    /\ level_rewards' = {r \in level_rewards : r.id # id}
    /\ events' = Append(events,
            [name |-> "pidroid_level_reward_remove",
             reward |-> RewardById(level_rewards, id)])
    /\ reward_ops' = reward_ops + 1
    /\ reward_query' = NoQuery
    /\ UNCHANGED <<next_reward_id, user_levels, pc, call, info,
                   new_insert, computed, awards, awarded, queueVars, caseVars>>

\* insert_level_reward as task t, first session: the INSERT is committed.
RewardInsertCommit(t, guild_id, role_id, level) ==
    /\ pc[t] = "idle"
    /\ \A u \in Tasks : pc[u] = "idle" => t <= u
    /\ reward_ops < MaxRewardOps
    /\ LET entry == [id |-> next_reward_id, guild_id |-> guild_id,
                     level |-> level, role_id |-> role_id] IN
        /\ level_rewards' = level_rewards \cup {entry}
        /\ call' = [call EXCEPT ![t] = [op |-> "insert_level_reward", entry |-> entry]]
    /\ pc' = [pc EXCEPT ![t] = "reward_add"]
    /\ next_reward_id' = next_reward_id + 1
    /\ reward_ops' = reward_ops + 1
    /\ reward_query' = NoQuery
    /\ UNCHANGED <<user_levels, info, new_insert, computed, events, awards, awarded,
                   queueVars, caseVars>>

\* insert_level_reward as task t, second session: fetch_level_reward_by_id of
\* the new id, whose result is dispatched.
RewardInsertDispatch(t) ==
    /\ pc[t] = "reward_add"
    /\ events' = Append(events,
            [name |-> "pidroid_level_reward_add",
             reward |-> RewardById(level_rewards, call[t].entry.id)])
    /\ pc' = [pc EXCEPT ![t] = "idle"]
    /\ call' = [call EXCEPT ![t] = None]
    /\ UNCHANGED <<user_levels, info, new_insert, computed, awards, awarded,
                   rewardVars, queueVars, caseVars>>

\* _delete_level_reward as task t, first session: fetch_level_reward_by_id.
RewardDeleteFetch(t, id) ==
    /\ pc[t] = "idle"
    /\ \A u \in Tasks : pc[u] = "idle" => t <= u
    /\ reward_ops < MaxRewardOps
    /\ info' = [info EXCEPT ![t] = RewardById(level_rewards, id)]
    /\ call' = [call EXCEPT ![t] = [op |-> "_delete_level_reward", id |-> id]]
    /\ pc' = [pc EXCEPT ![t] = "reward_remove"]
    /\ reward_ops' = reward_ops + 1
    /\ UNCHANGED <<user_levels, new_insert, computed, events, awards, awarded,
                   level_rewards, next_reward_id, reward_query, queueVars, caseVars>>

\* _delete_level_reward as task t, second session: the DELETE is committed
\* and the object read before is dispatched.
RewardDeleteCommit(t) ==
    /\ pc[t] = "reward_remove"
    /\ level_rewards' = {r \in level_rewards : r.id # call[t].id}
    /\ events' = Append(events,
            [name |-> "pidroid_level_reward_remove", reward |-> info[t]])
    /\ pc' = [pc EXCEPT ![t] = "idle"]
    /\ call' = [call EXCEPT ![t] = None]
    /\ info' = [info EXCEPT ![t] = None]
    /\ reward_query' = NoQuery
    /\ UNCHANGED <<user_levels, new_insert, computed, awards, awarded,
                   next_reward_id, reward_ops, queueVars, caseVars>>

\* The level-reward operations that write, session by session, run by
\* overlapping tasks.
NextRewardEvents ==
    \/ \E t \in Tasks, a \in RewardInserts : RewardInsertCommit(t, a[1], a[2], a[3])
    \/ \E t \in Tasks : RewardInsertDispatch(t)
    \/ \E t \in Tasks, id \in 1..next_reward_id : RewardDeleteFetch(t, id)
    \/ \E t \in Tasks : RewardDeleteCommit(t)
    \/ \E id \in 1..(next_reward_id - 1), a \in RewardUpdates :
            UpdateLevelRewardById(id, a[1], a[2])

FetchEligibleLevelRewardForLevel(guild_id, level) ==
    QueryResult("eligible", guild_id, level,
                EligibleRows(level_rewards, guild_id, level),
                FirstLevelDesc(EligibleRows(level_rewards, guild_id, level)))

FetchPreviousLevelReward(guild_id, level) ==
    QueryResult("previous", guild_id, level,
                PreviousRows(level_rewards, guild_id, level),
                FirstLevelDesc(PreviousRows(level_rewards, guild_id, level)))

FetchNextLevelReward(guild_id, level) ==
    QueryResult("next", guild_id, level,
                NextRows(level_rewards, guild_id, level),
                FirstLevelDesc(NextRows(level_rewards, guild_id, level)))

NextRewards ==
    \/ \E a \in RewardInserts : InsertLevelReward(a[1], a[2], a[3])
    \/ \E id \in 1..(next_reward_id - 1), a \in RewardUpdates :
            UpdateLevelRewardById(id, a[1], a[2])
    \/ \E id \in 1..(next_reward_id - 1) : DeleteLevelReward(id)
    \/ \E g \in Guilds, l \in QueryLevels : FetchEligibleLevelRewardForLevel(g, l)
    \/ \E g \in Guilds, l \in QueryLevels : FetchPreviousLevelReward(g, l)
    \/ \E g \in Guilds, l \in QueryLevels : FetchNextLevelReward(g, l)

----------------------------------------------------------------------------
(* Punishments *)

MaxCaseOps == 3
MaxTime == 2

\* A value of a DateTime column; None is its NULL.
Date(time) == [date |-> time]

\* (type, guild_id, user_id, expire_date) of the cases inserted, (expire_date,
\* visible, handled) of the values written by updates, and (type, guild_id,
\* user_id) of the expirations. The columns that no filter reads (names,
\* moderator, reason, issue_date) are left out of the rows.
CaseInserts == {<<"ban", 1, 1, None>>, <<"ban", 1, 1, Date(1)>>, <<"jail", 1, 1, None>>,
                <<"jail", 1, 1, Date(2)>>, <<"jail", 1, 2, None>>, <<"ban", 2, 1, Date(1)>>}
CaseUpdates == {<<None, TRUE, FALSE>>, <<Date(1), TRUE, TRUE>>, <<Date(1), TRUE, FALSE>>,
                <<Date(2), FALSE, FALSE>>}
CaseExpires == {<<"jail", 1, 1>>, <<"ban", 1, 1>>, <<"ban", 2, 1>>}

\* A new Punishments row: handled and visible take their server defaults.
PunishmentRow(id, case_id, type, guild_id, user_id, expire_date) ==
    [id |-> id, case_id |-> case_id, type |-> type, guild_id |-> guild_id,
     user_id |-> user_id, expire_date |-> expire_date,
     handled |-> FALSE, visible |-> TRUE]

\* The counter returned by INSERT ... ON CONFLICT DO UPDATE: a new counter row
\* takes the default 1, an existing one is incremented.
CounterAfterUpsert(counter) == IF counter = 0 THEN 1 ELSE counter + 1

\* __fetch_case_by_internal_id: the row with that id, or None.
CaseById(table, id) ==
    IF \E r \in table : r.id = id
    THEN CHOOSE r \in table : r.id = id
    ELSE None

\* Mutant: the counter is read without holding the counter row.
MutInsertPunishmentUpsertNoLock(t, type, guild_id, user_id, expire_date) ==
    /\ pc[t] = "idle"
    /\ \A u \in Tasks : pc[u] = "idle" => t <= u
    /\ case_ops < MaxCaseOps
    /\ call' = [call EXCEPT ![t] =
            [type |-> type, guild_id |-> guild_id, user_id |-> user_id,
             expire_date |-> expire_date,
             counter |-> CounterAfterUpsert(counters[guild_id])]]
    /\ pc' = [pc EXCEPT ![t] = "case_insert"]
    /\ case_ops' = case_ops + 1
    /\ UNCHANGED <<user_levels, info, new_insert, computed, events, awards, awarded,
                   rewardVars, queueVars, punishments, counters, next_case_id, now,
                   case_query>>

\* insert_punishment_entry as task t: the transaction begins and the upsert
\* of the guild's counter returns the new counter. The upsert holds the
\* counter row until the transaction ends, so that no other transaction
\* passes its own upsert for the guild in between.
InsertPunishmentUpsert(t, type, guild_id, user_id, expire_date) ==
    /\ pc[t] = "idle"
    /\ \A u \in Tasks : pc[u] = "idle" => t <= u
    /\ case_ops < MaxCaseOps
    /\ \A u \in Tasks : pc[u] = "case_insert" => call[u].guild_id # guild_id
    /\ call' = [call EXCEPT ![t] =
            [type |-> type, guild_id |-> guild_id, user_id |-> user_id,
             expire_date |-> expire_date,
             counter |-> CounterAfterUpsert(counters[guild_id])]]
    /\ pc' = [pc EXCEPT ![t] = "case_insert"]
    /\ case_ops' = case_ops + 1
    /\ UNCHANGED <<user_levels, info, new_insert, computed, events, awards, awarded,
                   rewardVars, queueVars, punishments, counters, next_case_id, now,
                   case_query>>

\* insert_punishment_entry as task t: the case is added with the counter as
\* case_id and the transaction commits counter and case together.
InsertPunishmentCommit(t) ==
    /\ pc[t] = "case_insert"
    /\ counters' = [counters EXCEPT ![call[t].guild_id] = call[t].counter]
    /\ punishments' = punishments \cup
            {PunishmentRow(next_case_id, call[t].counter, call[t].type,
                           call[t].guild_id, call[t].user_id, call[t].expire_date)}
    /\ next_case_id' = next_case_id + 1
    /\ call' = [call EXCEPT ![t] = [id |-> next_case_id]]
    /\ pc' = [pc EXCEPT ![t] = "case_fetch"]
    /\ case_query' = NoQuery
    /\ UNCHANGED <<user_levels, info, new_insert, computed, events, awards, awarded,
                   rewardVars, queueVars, now, case_ops>>

\* insert_punishment_entry as task t: the transaction raises and is rolled
\* back, the counter with it.
InsertPunishmentRaises(t) ==
    /\ pc[t] = "case_insert"
    /\ call' = [call EXCEPT ![t] = None]
    /\ pc' = [pc EXCEPT ![t] = "idle"]
    /\ UNCHANGED <<user_levels, info, new_insert, computed, events, awards, awarded,
                   rewardVars, queueVars, caseVars>>

\* insert_punishment_entry as task t: the case is read back and returned.
InsertPunishmentFetch(t) ==
    /\ pc[t] = "case_fetch"
    /\ case_query' = [op |-> "insert_punishment_entry",
                      result |-> CaseById(punishments, call[t].id)]
    /\ call' = [call EXCEPT ![t] = None]
    /\ pc' = [pc EXCEPT ![t] = "idle"]
    /\ UNCHANGED <<user_levels, info, new_insert, computed, events, awards, awarded,
                   rewardVars, queueVars, punishments, counters, next_case_id, now,
                   case_ops>>

\* The UPDATE of update_case_by_internal_id applied to the table.
UpdatedCases(table, id, expire_date, visible, handled) ==
    {IF r.id = id
     THEN [r EXCEPT !.expire_date = expire_date, !.visible = visible,
                    !.handled = handled]
     ELSE r : r \in table}

\* update_case_by_internal_id; the reason it also writes is not modelled.
UpdateCaseByInternalId(id, expire_date, visible, handled) ==
    /\ case_ops < MaxCaseOps
    /\ punishments' = UpdatedCases(punishments, id, expire_date, visible, handled)
    /\ case_ops' = case_ops + 1
    /\ case_query' = [op |-> "update_case_by_internal_id", id |-> id]
    /\ UNCHANGED <<xpVars, rewardVars, queueVars, counters, next_case_id, now>>

\* The UPDATE of expire_cases_by_type applied to the table: the filter has
\* no condition on visible or handled.
ExpiredCases(table, type, guild_id, user_id, time) ==
    {IF r.type = type /\ r.guild_id = guild_id /\ r.user_id = user_id
     THEN [r EXCEPT !.expire_date = Date(time), !.handled = TRUE]
     ELSE r : r \in table}

ExpireCasesByType(type, guild_id, user_id) ==
    /\ case_ops < MaxCaseOps
    /\ punishments' = ExpiredCases(punishments, type, guild_id, user_id, now)
    /\ case_ops' = case_ops + 1
    /\ case_query' = [op |-> "expire_cases_by_type", type |-> type,
                      guild_id |-> guild_id, user_id |-> user_id]
    /\ UNCHANGED <<xpVars, rewardVars, queueVars, counters, next_case_id, now>>

\* Mutant: a case that expires at this instant still counts.
MutIsCurrentlyPunishedInclusive(table, punishment_type, guild_id, user_id, time) ==
    \E r \in table :
        /\ r.type = punishment_type
        /\ r.guild_id = guild_id
        /\ r.user_id = user_id
        /\ r.visible
        /\ (r.expire_date = None \/ r.expire_date.date >= time)

\* __is_currently_punished: the count of the matching rows is positive.
IsCurrentlyPunished(table, punishment_type, guild_id, user_id, time) ==
    \E r \in table :
        /\ r.type = punishment_type
        /\ r.guild_id = guild_id
        /\ r.user_id = user_id
        /\ r.visible
        /\ (r.expire_date = None \/ r.expire_date.date > time)

IsCurrentlyJailed(guild_id, user_id) ==
    /\ case_query' = [op |-> "is_currently_jailed", guild_id |-> guild_id,
                      user_id |-> user_id,
                      result |-> IsCurrentlyPunished(punishments, "jail", guild_id,
                                                     user_id, now)]
    /\ UNCHANGED <<xpVars, rewardVars, queueVars, punishments, counters, next_case_id,
                   now, case_ops>>

\* Mutant: the handled flag is not part of the filter.
MutActiveGuildBansIgnoresHandled(table, guild_id, time) ==
    {r \in table :
        /\ r.guild_id = guild_id
        /\ r.expire_date # None
        /\ r.expire_date.date <= time
        /\ r.type = "ban"
        /\ r.visible}

\* The rows selected by fetch_active_guild_bans; a comparison with a NULL
\* expire_date is not true.
ActiveGuildBans(table, guild_id, time) ==
    {r \in table :
        /\ r.guild_id = guild_id
        /\ r.expire_date # None
        /\ r.expire_date.date <= time
        /\ ~r.handled
        /\ r.type = "ban"
        /\ r.visible}

FetchActiveGuildBans(guild_id) ==
    /\ case_query' = [op |-> "fetch_active_guild_bans", guild_id |-> guild_id,
                      result |-> ActiveGuildBans(punishments, guild_id, now)]
    /\ UNCHANGED <<xpVars, rewardVars, queueVars, punishments, counters, next_case_id,
                   now, case_ops>>

\* Time passes between two calls.
Tick ==
    /\ now < MaxTime
    /\ now' = now + 1
    /\ case_query' = NoQuery
    /\ UNCHANGED <<xpVars, rewardVars, queueVars, punishments, counters, next_case_id,
                   case_ops>>

\* Overlapping insert_punishment_entry tasks.
NextCaseIds ==
    \/ \E t \in Tasks, a \in CaseInserts :
            InsertPunishmentUpsert(t, a[1], a[2], a[3], a[4])
    \/ \E t \in Tasks : InsertPunishmentCommit(t)
    \/ \E t \in Tasks : InsertPunishmentRaises(t)
    \/ \E t \in Tasks : InsertPunishmentFetch(t)

\* No insert_punishment_entry is under way.
CasesIdle == \A t \in Tasks : pc[t] = "idle"

\* The punishment operations called one after the other as time passes.
NextCases ==
    \/ \E t \in Tasks, a \in CaseInserts :
            CasesIdle /\ InsertPunishmentUpsert(t, a[1], a[2], a[3], a[4])
    \/ \E t \in Tasks : InsertPunishmentCommit(t)
    \/ \E t \in Tasks : InsertPunishmentFetch(t)
    \/ \E id \in 1..(next_case_id - 1), a \in CaseUpdates :
            CasesIdle /\ UpdateCaseByInternalId(id, a[1], a[2], a[3])
    \/ \E a \in CaseExpires : CasesIdle /\ ExpireCasesByType(a[1], a[2], a[3])
    \/ \E g \in Guilds, u \in Members : CasesIdle /\ IsCurrentlyJailed(g, u)
    \/ \E g \in Guilds : CasesIdle /\ FetchActiveGuildBans(g)
    \/ CasesIdle /\ Tick

----------------------------------------------------------------------------
(* Initial states *)

InitTasks ==
    /\ pc = [t \in Tasks |-> "idle"]
    /\ call = [t \in Tasks |-> None]
    /\ info = [t \in Tasks |-> None]
    /\ new_insert = [t \in Tasks |-> FALSE]
    /\ computed = [t \in Tasks |-> None]
    /\ events = <<>>
    /\ awards = 0

InitRewards ==
    /\ level_rewards = {}
    /\ next_reward_id = 1
    /\ reward_query = NoQuery
    /\ reward_ops = 0

InitQueue ==
    /\ role_queue = {}
    /\ next_queue_id = 1
    /\ queue_call = NoCall
    /\ fetched = {}
    /\ deliveries = <<>>
    /\ queue_ops = 0

InitCases ==
    /\ punishments = {}
    /\ counters = [g \in Guilds |-> 0]
    /\ next_case_id = 1
    /\ now = 0
    /\ case_query = NoQuery
    /\ case_ops = 0

Init ==
    /\ user_levels = <<>>
    /\ awarded = <<>>
    /\ InitTasks
    /\ InitRewards
    /\ InitQueue
    /\ InitCases

\* A table that already holds one row of member 1 of guild 1, with any
\* non-negative stored state.
StoredXp == {0, 30, 150}
StoredLevels == {0, 2}
StoredThresholds == {0, 100, 220}
StoredTotals == {0, 500}

InitStored ==
    /\ \E x \in StoredXp, l \in StoredLevels, n \in StoredThresholds, s \in StoredTotals :
            user_levels = <<[id |-> 1, guild_id |-> 1, user_id |-> 1, total_xp |-> s,
                             current_xp |-> x, xp_to_next_level |-> n, level |-> l]>>
    /\ awarded = <<0>>
    /\ InitTasks
    /\ InitRewards
    /\ InitQueue
    /\ InitCases

Next == AwardXp

Spec == Init /\ [][Next]_vars

\* Calls of award_xp, one after the other, and of insert_role_change, each of
\* whose sessions can raise. The two tables share no state, so a behaviour
\* exercises one of them.
NextFail ==
    \/ queue_ops = 0 /\ AwardXpSequential
    \/ \E t \in Tasks :
            queue_ops = 0 /\ (\A u \in Tasks : pc[u] = "idle") /\ AwardXpFetchRaises(t)
    \/ \E t \in Tasks : queue_ops = 0 /\ AwardXpRaises(t)
    \/ \E a \in QueueInserts : awards = 0 /\ InsertRoleChange(a[1], a[2], a[3], a[4])
    \/ \E a \in QueueInserts : awards = 0 /\ InsertRoleChangeRaises(a[1], a[2], a[3], a[4])

SpecFail == Init /\ [][NextFail]_vars

\* A call of award_xp that has entered the loop keeps running: the loop has
\* no await in it.
SpecLoop ==
    /\ InitStored
    /\ [][AwardXpLoop]_vars
    /\ \A t \in Tasks : WF_vars(LoopIterate(t) \/ LoopExit(t))

SpecRewardEvents == Init /\ [][NextRewardEvents]_vars

SpecCaseIds == Init /\ [][NextCaseIds]_vars

SpecCases == Init /\ [][NextCases]_vars

SpecSequential == Init /\ [][AwardXpSequential]_vars

SpecStored == InitStored /\ [][AwardXpStored]_vars

SpecRewards == Init /\ [][NextRewards]_vars

SpecQueue == Init /\ [][NextQueue]_vars

----------------------------------------------------------------------------
(* Properties of award_xp *)

\* The largest number of levels one award is taken to gain.
MaxGain == 4

Triple(row) ==
    [new_xp |-> row.current_xp, new_level |-> row.level,
     new_xp_to_next_level |-> row.xp_to_next_level]

\* The reference curve in closed form: the threshold in force after j gains,
\* the XP spent on the first k gains, and the least number of gains that
\* leaves the remainder below the threshold.
RefThreshold(level0, threshold0, j) ==
    IF j = 0 THEN threshold0 ELSE 5 * (level0 + j)^2 + 50 * (level0 + j) + 100

RECURSIVE RefSpent(_, _, _)
RefSpent(level0, threshold0, k) ==
    IF k = 0 THEN 0
    ELSE RefSpent(level0, threshold0, k - 1) + RefThreshold(level0, threshold0, k - 1)

RefGain(xp0, level0, threshold0, amount) ==
    CHOOSE k \in 0..MaxGain :
        /\ xp0 + amount - RefSpent(level0, threshold0, k) < RefThreshold(level0, threshold0, k)
        /\ \A j \in 0..(k - 1) :
            xp0 + amount - RefSpent(level0, threshold0, j) >= RefThreshold(level0, threshold0, j)

RefCurve(read, amount) ==
    LET k == RefGain(read.current_xp, read.level, read.xp_to_next_level, amount) IN
    [new_xp |-> read.current_xp + amount - RefSpent(read.level, read.xp_to_next_level, k),
     new_level |-> read.level + k,
     new_xp_to_next_level |-> RefThreshold(read.level, read.xp_to_next_level, k)]

\* The step in which task t commits its UPDATE.
UpdateStep(t) == pc[t] = "update" /\ pc'[t] = "dispatch"

\* The step in which task t passes its dispatch.
DispatchStep(t) == pc[t] = "dispatch" /\ pc'[t] = "idle"

\* C1: whatever non-negative state a row held, once an award has been
\* committed to it the row satisfies current_xp < xp_to_next_level.
C1_CurrentXpBelowThreshold ==
    \A i \in DOMAIN user_levels :
        awarded[i] > 0 => user_levels[i].current_xp < user_levels[i].xp_to_next_level

\* An award was committed on a stored state with current_xp >= xp_to_next_level
\* and gained more than one level.
C1_Witness ==
    \E t \in Tasks :
        /\ pc[t] = "dispatch"
        /\ info[t].current_xp >= info[t].xp_to_next_level
        /\ computed[t].new_level > info[t].level + 1

\* C2: an UPDATE of award_xp on the state it read leaves in the row the
\* (current_xp, level, xp_to_next_level) of the reference curve.
C2_PersistsReferenceCurve ==
    [][\A t \in Tasks :
        UpdateStep(t) =>
            \A i \in MemberRows(user_levels, call[t].guild_id, call[t].member_id) :
                user_levels[i] = info[t] =>
                    Triple(user_levels'[i]) = RefCurve(user_levels[i], call[t].amount)]_vars

\* An award that crossed several levels at once has been persisted.
C2_Witness ==
    \E t \in Tasks :
        /\ pc[t] = "dispatch"
        /\ computed[t].new_level >= info[t].level + 2
        /\ \E i \in MemberRows(user_levels, call[t].guild_id, call[t].member_id) :
                Triple(user_levels[i]) = computed[t]

\* C3: the total_xp of a row created by award_xp is the sum of the amounts
\* committed to it, and no step decreases it.
C3_TotalXpIsSumOfAmounts ==
    /\ [](\A i \in DOMAIN user_levels : user_levels[i].total_xp = awarded[i])
    /\ [][\A i \in DOMAIN user_levels :
            user_levels'[i].total_xp >= user_levels[i].total_xp]_vars

\* Two awards, 300 and 100, were committed to a row that levelled up twice.
C3_Witness ==
    \E i \in DOMAIN user_levels :
        /\ user_levels[i].level >= 2
        /\ awarded[i] = 400
        /\ awards = 2

\* C4: when task t commits its UPDATE after task u committed one for the same
\* member, both having read the same state, the row holds the curve of t's
\* amount alone on that state: u's gain is gone from current_xp and level.
C4_LaterWriteOverwrites ==
    [][\A t \in Tasks, u \in Tasks :
        (/\ t # u
         /\ UpdateStep(t)
         /\ pc[u] = "dispatch"
         /\ call[u].guild_id = call[t].guild_id
         /\ call[u].member_id = call[t].member_id
         /\ info[u] = info[t]) =>
            \A i \in MemberRows(user_levels', call[t].guild_id, call[t].member_id) :
                Triple(user_levels'[i]) = RefCurve(info[t], call[t].amount)]_vars

\* Both tasks read the same state and both committed; total_xp counts both
\* amounts while current_xp and level are those of one amount alone.
C4_Witness ==
    \E t \in Tasks, u \in Tasks :
        /\ t # u
        /\ pc[t] = "dispatch" /\ pc[u] = "dispatch"
        /\ call[u].guild_id = call[t].guild_id
        /\ call[u].member_id = call[t].member_id
        /\ info[u] = info[t]
        /\ \E i \in MemberRows(user_levels, call[t].guild_id, call[t].member_id) :
            /\ user_levels[i].total_xp = info[t].total_xp + call[t].amount + call[u].amount
            /\ Triple(user_levels[i]) = RefCurve(info[t], call[t].amount)

\* C5 as stated: award_xp dispatches one pidroid_level_up exactly when the
\* level after the award is higher than the level before it.
C5_DispatchIffLevelRose ==
    [][\A t \in Tasks :
        DispatchStep(t) =>
            IF computed[t].new_level > info[t].level
            THEN Len(events') = Len(events) + 1
            ELSE events' = events]_vars

\* C5 amended: award_xp dispatches one pidroid_level_up exactly when the level
\* after the award is higher than the level before it or the row was created
\* by this award, and nothing otherwise.
C5_DispatchIffLevelRoseOrInserted ==
    [][\A t \in Tasks :
        DispatchStep(t) =>
            IF new_insert[t] \/ computed[t].new_level > info[t].level
            THEN /\ Len(events') = Len(events) + 1
                 /\ SubSeq(events', 1, Len(events)) = events
                 /\ events'[Len(events')].name = "pidroid_level_up"
            ELSE events' = events]_vars

\* A notification was dispatched for a member that stayed at level 0.
C5_Witness ==
    \E k \in DOMAIN events :
        /\ events[k].name = "pidroid_level_up"
        /\ events[k].old.level = 0
        /\ events[k].new.level = 0

----------------------------------------------------------------------------
(* Properties of the role-change queue *)

QueueIds == {e.id : e \in role_queue}

\* C6: the result of fetch_role_changes(guild) has exactly one record per
\* member with entries in the guild, holding that member's entry ids, the
\* roles of its grants and the roles of its revokes, and nothing else.
C6_FetchPartitionsByMember ==
    queue_call.op = "fetch" =>
        LET g == queue_call.guild_id
            Of(m) == {e \in role_queue : e.guild_id = g /\ e.member_id = m}
        IN  /\ \A m \in Members :
                Cardinality({c \in fetched : c.member_id = m}) =
                    IF Of(m) = {} THEN 0 ELSE 1
            /\ \A c \in fetched :
                /\ c.guild_id = g
                /\ c.member_id \in Members
                /\ c.ids = {e.id : e \in Of(c.member_id)}
                /\ DOMAIN c.roles_added =
                        {e.role_id : e \in {x \in Of(c.member_id) : x.action = 1}}
                /\ DOMAIN c.roles_removed =
                        {e.role_id : e \in {x \in Of(c.member_id) : x.action = 0}}

\* A fetch returned two members' records while another guild had an entry.
C6_Witness ==
    /\ queue_call.op = "fetch"
    /\ Cardinality(fetched) = 2
    /\ \E e \in role_queue : e.guild_id # queue_call.guild_id

\* C7: a fetch leaves the queue as it is and returns every entry of its guild;
\* an entry leaves the queue only in a delete_role_changes that names its id.
C7_AtLeastOnce ==
    [][/\ queue_call'.op = "fetch" =>
            /\ role_queue' = role_queue
            /\ \A e \in role_queue :
                e.guild_id = queue_call'.guild_id =>
                    \E c \in fetched' : c.member_id = e.member_id /\ e.id \in c.ids
       /\ \A e \in role_queue :
            e \notin role_queue' =>
                queue_call'.op = "delete" /\ e.id \in queue_call'.ids]_vars

\* A fetch returned an entry that an earlier fetch had already returned.
C7_Witness ==
    /\ queue_call.op = "fetch"
    /\ \E c \in fetched : \E id \in c.ids : id \in QueueIds /\ deliveries[id] = 2

\* C8: delete_role_changes(ids) removes the entries whose id is in ids and no
\* other entry.
C8_DeleteRemovesExactlyIds ==
    [][(queue_call'.op = "delete" /\ queue_ops' = queue_ops + 1) =>
            /\ role_queue' \subseteq role_queue
            /\ \A e \in role_queue : e \in role_queue' <=> e.id \notin queue_call'.ids]_vars

\* The ids of a fetched record were deleted, and an entry of the same guild
\* and member that the fetch did not return (it was enqueued after the fetch)
\* is still in the queue.
C8_Witness ==
    /\ queue_call.op = "delete"
    /\ \E c \in fetched :
        /\ queue_call.ids = c.ids
        /\ c.ids \cap QueueIds = {}
        /\ \E e \in role_queue :
            /\ e.guild_id = c.guild_id
            /\ e.member_id = c.member_id
            /\ e.id \notin c.ids

----------------------------------------------------------------------------
(* Properties of the level reward queries *)

GuildRewards(g) == {r \in level_rewards : r.guild_id = g}

\* C9: fetch_eligible_level_reward_for_level(guild, L) returns a reward of the
\* guild with the highest level <= L, and None exactly when there is none.
C9_EligibleIsHighestAtMost ==
    reward_query.op = "eligible" =>
        LET g == reward_query.guild_id
            L == reward_query.level
        IN  /\ reward_query.found <=> \E r \in GuildRewards(g) : r.level <= L
            /\ reward_query.found =>
                /\ reward_query.result \in GuildRewards(g)
                /\ reward_query.result.level <= L
                /\ \A q \in GuildRewards(g) :
                        q.level <= L => q.level <= reward_query.result.level

\* With rewards at 5, 10 and 20, level 7 gave the reward at 5.
C9_Witness ==
    /\ reward_query.op = "eligible"
    /\ reward_query.level = 7
    /\ reward_query.found
    /\ reward_query.result.level = 5
    /\ {r.level : r \in GuildRewards(reward_query.guild_id)} = {5, 10, 20}

\* C10 as stated: _fetch_next_level_reward(guild, L) returns the guild's
\* reward with the smallest level > L, and None exactly when there is none.
C10_NextIsNearestAbove ==
    reward_query.op = "next" =>
        LET g == reward_query.guild_id
            L == reward_query.level
        IN  /\ reward_query.found <=> \E r \in GuildRewards(g) : r.level > L
            /\ reward_query.found =>
                /\ reward_query.result \in GuildRewards(g)
                /\ reward_query.result.level > L
                /\ \A q \in GuildRewards(g) :
                        q.level > L => reward_query.result.level <= q.level

\* C11: _fetch_previous_level_reward(guild, L) returns a reward of the guild
\* with the highest level < L, and None exactly when there is none.
C11_PreviousIsNearestBelow ==
    reward_query.op = "previous" =>
        LET g == reward_query.guild_id
            L == reward_query.level
        IN  /\ reward_query.found <=> \E r \in GuildRewards(g) : r.level < L
            /\ reward_query.found =>
                /\ reward_query.result \in GuildRewards(g)
                /\ reward_query.result.level < L
                /\ \A q \in GuildRewards(g) :
                        q.level < L => q.level <= reward_query.result.level

\* With rewards at 5, 10 and 20, level 20 gave the reward at 10.
C11_Witness ==
    /\ reward_query.op = "previous"
    /\ reward_query.level = 20
    /\ reward_query.found
    /\ reward_query.result.level = 10
    /\ {r.level : r \in GuildRewards(reward_query.guild_id)} = {5, 10, 20}

----------------------------------------------------------------------------
(* Further properties of the role-change queue *)

\* The step of an insert_role_change, and of a delete_role_changes.
InsertStep == queue_call'.op = "insert" /\ queue_ops' = queue_ops + 1
DeleteStep == queue_call'.op = "delete" /\ queue_ops' = queue_ops + 1

SameChange(e, f) ==
    /\ e.action = f.action /\ e.guild_id = f.guild_id
    /\ e.member_id = f.member_id /\ e.role_id = f.role_id

\* C12: insert_role_change adds one entry with a new id, status enqueued and
\* the action, guild, member and role given, whether or not the same change
\* is already enqueued, and changes no other entry.
C12_InsertAppendsOneEntry ==
    [][InsertStep =>
        /\ role_queue \subseteq role_queue'
        /\ Cardinality(role_queue') = Cardinality(role_queue) + 1
        /\ \A e \in role_queue' \ role_queue :
            /\ e.id \notin {x.id : x \in role_queue}
            /\ e.status = "enqueued"
            /\ e.action = queue_call'.action
            /\ e.guild_id = queue_call'.guild_id
            /\ e.member_id = queue_call'.member_id
            /\ e.role_id = queue_call'.role_id]_vars

\* The same change was enqueued three times and the queue holds three entries.
C12_Witness ==
    /\ queue_call.op = "insert"
    /\ Cardinality(role_queue) = 3
    /\ \A e \in role_queue, f \in role_queue : SameChange(e, f)

\* C13: when a grant of a role and a later revoke of the same role for the
\* same member are both enqueued, the member's record of a fetch of the guild
\* has the role among the added roles and among the removed roles.
C13_GrantAndRevokeBothReturned ==
    queue_call.op = "fetch" =>
        \A e \in role_queue, f \in role_queue :
            (/\ e.guild_id = queue_call.guild_id /\ f.guild_id = e.guild_id
             /\ f.member_id = e.member_id /\ f.role_id = e.role_id
             /\ e.action = 1 /\ f.action = 0 /\ e.id < f.id) =>
                \E c \in fetched :
                    /\ c.member_id = e.member_id
                    /\ e.role_id \in DOMAIN c.roles_added
                    /\ e.role_id \in DOMAIN c.roles_removed

\* Role 7 was granted and then revoked for a member, and the fetch returned it
\* in both arrays.
C13_Witness ==
    /\ queue_call.op = "fetch"
    /\ \E c \in fetched :
        /\ 7 \in DOMAIN c.roles_added
        /\ 7 \in DOMAIN c.roles_removed
        /\ \E e \in role_queue, f \in role_queue :
            /\ e.id \in c.ids /\ f.id \in c.ids
            /\ e.action = 1 /\ f.action = 0 /\ e.role_id = 7 /\ f.role_id = 7
            /\ e.id < f.id

\* C14: delete_role_changes can be called with any ids; a call whose ids are
\* not in the queue (deleted before, or never enqueued) leaves the queue as
\* it is, and after a call none of its ids is in the queue.
C14_DeleteIsIdempotent ==
    /\ [](queue_ops < MaxQueueOps =>
            \A ids \in SUBSET (1..next_queue_id) : ENABLED DeleteRoleChanges(ids))
    /\ [][DeleteStep =>
            /\ queue_call'.ids \cap {e.id : e \in role_queue} = {} =>
                    role_queue' = role_queue
            /\ queue_call'.again => role_queue' = role_queue
            /\ queue_call'.ids \cap {e.id : e \in role_queue'} = {}]_vars

\* The ids of an entry that had been enqueued were deleted twice in a row.
C14_Witness ==
    /\ queue_call.op = "delete"
    /\ queue_call.again
    /\ \E id \in queue_call.ids : id < next_queue_id

----------------------------------------------------------------------------
(* Further properties of award_xp *)

\* The step in which task t commits the INSERT of insert_member_level_info.
InsertLevelStep(t) == pc[t] = "insert" /\ pc'[t] = "refetch"

FreshState == [current_xp |-> 0, level |-> 0, xp_to_next_level |-> 100]

\* C15: for a member without a row award_xp first inserts a row with
\* total_xp 0, current_xp 0, level 0 and xp_to_next_level 100; when no award
\* has been committed to the member before this call's UPDATE, the row then
\* holds the amount as total_xp and the curve of the amount on (0, 0, 100).
C15_FirstAwardStartsFromDefaults ==
    [][\A t \in Tasks :
        /\ InsertLevelStep(t) =>
            /\ Len(user_levels') = Len(user_levels) + 1
            /\ SubSeq(user_levels', 1, Len(user_levels)) = user_levels
            /\ LET row == user_levels'[Len(user_levels')] IN
                /\ row.guild_id = call[t].guild_id /\ row.user_id = call[t].member_id
                /\ row.total_xp = 0 /\ row.current_xp = 0
                /\ row.level = 0 /\ row.xp_to_next_level = 100
        /\ (/\ UpdateStep(t)
            /\ new_insert[t]
            /\ \A i \in MemberRows(user_levels, call[t].guild_id, call[t].member_id) :
                    awarded[i] = 0) =>
            \A i \in MemberRows(user_levels', call[t].guild_id, call[t].member_id) :
                /\ user_levels'[i].total_xp = call[t].amount
                /\ Triple(user_levels'[i]) = RefCurve(FreshState, call[t].amount)]_vars

\* A first award of 300 created the row and left it at level 2 with 45 XP.
C15_Witness ==
    \E t \in Tasks :
        /\ pc[t] = "dispatch"
        /\ new_insert[t]
        /\ call[t].amount = 300
        /\ \E i \in MemberRows(user_levels, call[t].guild_id, call[t].member_id) :
            /\ user_levels[i].total_xp = 300
            /\ user_levels[i].level = 2
            /\ user_levels[i].current_xp = 45

\* C16 as stated: the table never holds two rows of one (guild, member).
C16_OneRowPerMember ==
    \A k \in Keys : Cardinality(MemberRows(user_levels, k[1], k[2])) <= 1

\* C17 as stated: a guild never has two rewards at one level.
C17_OneRewardPerLevel ==
    \A r \in level_rewards, q \in level_rewards :
        (r.guild_id = q.guild_id /\ r.level = q.level) => r = q

\* C19: for awards that do not overlap, a row created at (0, 0, 100) that
\* has received exactly 100 XP is at level 1 with current_xp 0 and
\* xp_to_next_level 155, and one that has received less is at level 0.
C19_HundredXpIsLevelOne ==
    \A i \in DOMAIN user_levels :
        /\ awarded[i] = 100 =>
            /\ user_levels[i].level = 1
            /\ user_levels[i].current_xp = 0
            /\ user_levels[i].xp_to_next_level = 155
        /\ awarded[i] < 100 =>
            /\ user_levels[i].level = 0
            /\ user_levels[i].current_xp = awarded[i]
            /\ user_levels[i].xp_to_next_level = 100

\* Two awards to one member, 40 and 60, have been committed.
C19_Witness ==
    /\ awards = 2
    /\ Len(user_levels) = 1
    /\ awarded[1] = 100
    /\ user_levels[1].level = 1

\* C20: an award of 300 to a row at level 2 with current_xp 30 and
\* xp_to_next_level 220 leaves it at level 3 with current_xp 110 and
\* xp_to_next_level 295, and total_xp 300 higher.
C20_LevelTwoPlusThreeHundred ==
    [][\A t \in Tasks :
        (UpdateStep(t) /\ call[t].amount = 300) =>
            \A i \in MemberRows(user_levels, call[t].guild_id, call[t].member_id) :
                (/\ user_levels[i] = info[t]
                 /\ user_levels[i].level = 2
                 /\ user_levels[i].current_xp = 30
                 /\ user_levels[i].xp_to_next_level = 220) =>
                    /\ user_levels'[i].level = 3
                    /\ user_levels'[i].current_xp = 110
                    /\ user_levels'[i].xp_to_next_level = 295
                    /\ user_levels'[i].total_xp = user_levels[i].total_xp + 300]_vars

\* The award of 300 to the row at (2, 30, 220) has been committed.
C20_Witness ==
    \E t \in Tasks :
        /\ pc[t] = "dispatch"
        /\ call[t].amount = 300
        /\ info[t].level = 2 /\ info[t].current_xp = 30
        /\ info[t].xp_to_next_level = 220
        /\ \E i \in MemberRows(user_levels, call[t].guild_id, call[t].member_id) :
            /\ user_levels[i].level = 3
            /\ user_levels[i].current_xp = 110
            /\ user_levels[i].total_xp = info[t].total_xp + 300

----------------------------------------------------------------------------
(* Persistence failures *)

\* The step in which a session of task t's award_xp raises.
RaiseStep(t) == pc[t] \in {"insert", "refetch", "update"} /\ pc'[t] = "idle"

\* C18 as stated: when a session of award_xp raises, the call ends without
\* another attempt and without a notification, and the member's stored row
\* is what it was when the call began (no row if there was none); when
\* insert_role_change raises, the queue is unchanged.
C18_FailedCallAppliesNothing ==
    [][/\ \A t \in Tasks :
            RaiseStep(t) =>
                /\ events' = events
                /\ awards' = awards
                /\ LET rows == MemberRows(user_levels', call[t].guild_id,
                                          call[t].member_id) IN
                    IF new_insert[t]
                    THEN rows = {}
                    ELSE \A i \in rows : user_levels'[i] = info[t]
       /\ (pc' = pc /\ awards' = awards + 1) =>
                /\ events' = events
                /\ user_levels' = user_levels
       /\ queue_call'.op = "insert_raised" => role_queue' = role_queue]_vars

----------------------------------------------------------------------------
(* Notifications and interleaved calls of award_xp *)

\* C21: events grow only in the dispatch step of a call, which follows the
\* call's committed UPDATE, by at most one notification per call; the
\* notification carries the state the call read as old state and, as new
\* state, the level, current_xp and xp_to_next_level the call persisted with
\* the total_xp read plus the amount.
C21_NotificationFollowsCommit ==
    [][/\ events' # events =>
            \E t \in Tasks :
                /\ DispatchStep(t)
                /\ computed[t] # None
                /\ \E i \in MemberRows(user_levels, call[t].guild_id, call[t].member_id) :
                        awarded[i] >= call[t].amount
                /\ Len(events') = Len(events) + 1
                /\ SubSeq(events', 1, Len(events)) = events
                /\ LET e == events'[Len(events')] IN
                    /\ e.old = info[t]
                    /\ Triple(e.new) = computed[t]
                    /\ e.new.total_xp = info[t].total_xp + call[t].amount
       /\ \A t \in Tasks :
            UpdateStep(t) =>
                /\ events' = events
                /\ \A i \in MemberRows(user_levels', call[t].guild_id, call[t].member_id) :
                        Triple(user_levels'[i]) = computed'[t]
       /\ \A t \in Tasks :
            DispatchStep(t) => computed'[t] = None /\ call'[t] = None]_vars

\* One call gained two levels and exactly one notification was emitted.
C21_Witness ==
    /\ awards = 1
    /\ \A t \in Tasks : pc[t] = "idle"
    /\ Len(events) = 1
    /\ events[1].new.level = events[1].old.level + 2
    /\ events[1].new.total_xp = 300

\* C22: also when calls for one member interleave, every stored row has
\* current_xp < xp_to_next_level and xp_to_next_level = 5*level^2 + 50*level + 100.
C22_RowsStayOnCurve ==
    \A i \in DOMAIN user_levels :
        /\ user_levels[i].current_xp < user_levels[i].xp_to_next_level
        /\ user_levels[i].xp_to_next_level =
                5 * user_levels[i].level ^ 2 + 50 * user_levels[i].level + 100

\* Two calls read the same state of one member and both committed, the
\* second one overwriting a level gained by the first.
C22_Witness ==
    \E t \in Tasks, u \in Tasks :
        /\ t # u
        /\ pc[t] = "dispatch" /\ pc[u] = "dispatch"
        /\ call[u].guild_id = call[t].guild_id
        /\ call[u].member_id = call[t].member_id
        /\ info[u] = info[t]
        /\ computed[u].new_level > computed[t].new_level
        /\ \E i \in MemberRows(user_levels, call[t].guild_id, call[t].member_id) :
                Triple(user_levels[i]) = computed[t]

\* C23 as stated: no step lowers the stored level of a row.
C23_LevelNeverDecreases ==
    [][\A i \in DOMAIN user_levels : user_levels'[i].level >= user_levels[i].level]_vars

\* C23 amended: an UPDATE of award_xp does not lower the level of a row that
\* still holds the state the call read, and no other step changes a level.
C23_LevelNeverDecreasesFromStateRead ==
    [][/\ \A t \in Tasks :
            UpdateStep(t) =>
                \A i \in MemberRows(user_levels, call[t].guild_id, call[t].member_id) :
                    user_levels[i] = info[t] =>
                        user_levels'[i].level >= user_levels[i].level
       /\ (\A t \in Tasks : ~UpdateStep(t)) =>
            \A i \in DOMAIN user_levels : user_levels'[i].level = user_levels[i].level]_vars

\* A second award to a row at level 1 was computed from the stored state and
\* raised the level again.
C23_Witness ==
    \E t \in Tasks :
        /\ pc[t] = "dispatch"
        /\ info[t].level >= 1
        /\ computed[t].new_level > info[t].level
        /\ \E i \in MemberRows(user_levels, call[t].guild_id, call[t].member_id) :
                user_levels[i].level = computed[t].new_level

----------------------------------------------------------------------------
(* The curve and the loop *)

\* The XP needed to complete the levels 0 .. level - 1.
RECURSIVE CompletedLevelsXp(_)
CompletedLevelsXp(level) ==
    IF level = 0 THEN 0
    ELSE CompletedLevelsXp(level - 1)
            + 5 * (level - 1) ^ 2 + 50 * (level - 1) + 100

\* C24: with calls that do not interleave, every row created by award_xp has
\* total_xp = current_xp + the thresholds of the levels it has completed.
C24_TotalIsCurrentPlusCompleted ==
    \A i \in DOMAIN user_levels :
        user_levels[i].total_xp =
            user_levels[i].current_xp + CompletedLevelsXp(user_levels[i].level)

\* Awards of 300 and 100: level 2 (100 + 155 spent) with 145 XP left.
C24_Witness ==
    \E i \in DOMAIN user_levels :
        /\ user_levels[i].total_xp = 400
        /\ user_levels[i].level = 2
        /\ user_levels[i].current_xp = 145

\* The step in which task t runs one iteration of the loop.
IterateStep(t) ==
    /\ pc[t] = "loop" /\ pc'[t] = "loop"
    /\ computed'[t] # computed[t]

\* C26 as stated: the loop ends and award_xp reaches its UPDATE, and after
\* each iteration the threshold is positive and the remaining XP is strictly
\* smaller than before it.
C26_LoopTerminatesStrictDecrease ==
    /\ \A t \in Tasks : (pc[t] = "loop") ~> (pc[t] = "dispatch")
    /\ [][\A t \in Tasks :
            IterateStep(t) =>
                /\ computed'[t].new_xp_to_next_level > 0
                /\ computed'[t].new_xp < computed[t].new_xp]_vars

\* C26 amended: the loop ends and award_xp reaches its UPDATE with the triple
\* of the curve; after each iteration the threshold is positive and the
\* remaining XP is smaller by the threshold passed, so strictly smaller from
\* the second iteration on and in the first unless the stored threshold is 0.
C26_LoopTerminates ==
    /\ \A t \in Tasks : (pc[t] = "loop") ~> (pc[t] = "dispatch")
    /\ [][\A t \in Tasks :
            /\ IterateStep(t) =>
                /\ computed'[t].new_xp_to_next_level > 0
                /\ computed'[t].new_xp =
                        computed[t].new_xp - computed[t].new_xp_to_next_level
                /\ computed'[t].new_xp >= 0
                /\ (computed[t].new_level > info[t].level
                        \/ info[t].xp_to_next_level > 0) =>
                            computed'[t].new_xp < computed[t].new_xp
            /\ (pc[t] = "loop" /\ pc'[t] = "dispatch") =>
                /\ computed[t] = ComputeAward(info[t], call[t].amount)
                /\ computed[t].new_level - info[t].level <= MaxGain]_vars

\* A call on a row with a stored threshold of 0 ran two iterations, the first
\* of which left the XP as it was, and reached its UPDATE.
C26_Witness ==
    \E t \in Tasks :
        /\ pc[t] = "dispatch"
        /\ info[t].xp_to_next_level = 0
        /\ computed[t].new_level >= info[t].level + 2

----------------------------------------------------------------------------
(* Immutability of queue entries *)

\* C25: every entry in the queue has status enqueued; an entry that stays in
\* the queue keeps its action, status, guild, member and role, no entry takes
\* over the id of another, and an entry leaves the queue only in a
\* delete_role_changes that names its id.
C25_EntriesAreImmutable ==
    /\ [](\A e \in role_queue : e.status = "enqueued")
    /\ [][/\ \A e \in role_queue, f \in role_queue' : f.id = e.id => f = e
          /\ \A e \in role_queue :
                (\A f \in role_queue' : f.id # e.id) =>
                    DeleteStep /\ e.id \in queue_call'.ids
          /\ ~DeleteStep => role_queue \subseteq role_queue']_vars

\* An entry has been fetched twice and is still enqueued as inserted, while
\* another entry has been deleted.
C25_Witness ==
    /\ \E e \in role_queue :
        /\ deliveries[e.id] = 2
        /\ e.status = "enqueued"
        /\ \E a \in QueueInserts :
                <<e.action, e.guild_id, e.member_id, e.role_id>> = a
    /\ \E id \in 1..(next_queue_id - 1) : id \notin QueueIds

----------------------------------------------------------------------------
(* Notifications of the level rewards *)

\* C28 as stated: insert_level_reward emits nothing when it commits the row
\* and then one pidroid_level_reward_add carrying the inserted reward;
\* _delete_level_reward emits one pidroid_level_reward_remove with its commit,
\* carrying the reward as read before; update_level_reward_by_id emits nothing.
C28_RewardNotifications ==
    [][/\ \A t \in Tasks :
            /\ (pc[t] = "idle" /\ pc'[t] = "reward_add") =>
                /\ events' = events
                /\ call'[t].entry \in level_rewards'
            /\ (pc[t] = "reward_add" /\ pc'[t] = "idle") =>
                events' = Append(events,
                    [name |-> "pidroid_level_reward_add", reward |-> call[t].entry])
            /\ (pc[t] = "idle" /\ pc'[t] = "reward_remove") => events' = events
            /\ (pc[t] = "reward_remove" /\ pc'[t] = "idle") =>
                /\ events' = Append(events,
                    [name |-> "pidroid_level_reward_remove", reward |-> info[t]])
                /\ \A r \in level_rewards' : r.id # call[t].id
       /\ pc' = pc => events' = events]_vars

----------------------------------------------------------------------------
(* Properties of the punishments *)

GuildCases(table, g) == {r \in table : r.guild_id = g}

\* The step in which task t commits the transaction of insert_punishment_entry.
CaseCommitStep(t) == pc[t] = "case_insert" /\ pc'[t] = "case_fetch"

\* C27: the case_ids of a guild are unique and are 1 .. the guild's counter;
\* a commit of insert_punishment_entry adds one case whose case_id is the
\* number of cases committed in the guild including it, and leaves the
\* counters and cases of the other guilds as they were; counters and cases
\* change in no other step, also with overlapping inserts.
C27_CaseIdsFromGuildCounter ==
    /\ [](\A r \in punishments, q \in punishments :
            (r.guild_id = q.guild_id /\ r.case_id = q.case_id) => r = q)
    /\ [](\A g \in Guilds :
            {r.case_id : r \in GuildCases(punishments, g)} = 1..counters[g])
    /\ [][/\ \A t \in Tasks :
                CaseCommitStep(t) =>
                    /\ \E r \in punishments' :
                        /\ r \notin punishments
                        /\ punishments' = punishments \cup {r}
                        /\ r.guild_id = call[t].guild_id
                        /\ r.case_id =
                            Cardinality(GuildCases(punishments, r.guild_id)) + 1
                        /\ counters'[r.guild_id] = r.case_id
                    /\ \A g \in Guilds :
                        g # call[t].guild_id => counters'[g] = counters[g]
          /\ (\A t \in Tasks : ~CaseCommitStep(t)) =>
                counters' = counters /\ punishments' = punishments]_vars

\* Guild 1 has the cases 1 and 2; the second insert overlapped with an insert
\* for guild 2 that holds its counter and has not committed.
C27_Witness ==
    /\ counters[1] = 2
    /\ counters[2] = 0
    /\ \E t \in Tasks, u \in Tasks :
        /\ pc[t] = "case_insert" /\ call[t].guild_id = 2 /\ call[t].counter = 1
        /\ pc[u] = "case_fetch"

\* The guild's visible bans whose expiration date is set, at or before the
\* time given, and that are not handled.
ExpiredUnhandledBans(g, time) ==
    {r \in GuildCases(punishments, g) :
        /\ r.type = "ban" /\ r.visible /\ ~r.handled
        /\ r.expire_date # None /\ r.expire_date.date <= time}

\* C29: fetch_active_guild_bans returns exactly the guild's visible,
\* unhandled bans with an expiration date at or before the current time,
\* never a ban without expiration date or a handled case; a handled case
\* becomes unhandled only by an update_case_by_internal_id of that case.
C29_ActiveBansAreExpiredUnhandled ==
    /\ [](case_query.op = "fetch_active_guild_bans" =>
            /\ case_query.result = ExpiredUnhandledBans(case_query.guild_id, now)
            /\ \A r \in case_query.result : r.expire_date # None /\ ~r.handled)
    /\ [][\A r \in punishments, q \in punishments' :
            (q.id = r.id /\ r.handled /\ ~q.handled) =>
                /\ case_query'.op = "update_case_by_internal_id"
                /\ case_query'.id = r.id]_vars

\* A fetch returned an expired ban and left out one that is expired and
\* handled and one that has no expiration date.
C29_Witness ==
    /\ case_query.op = "fetch_active_guild_bans"
    /\ case_query.result # {}
    /\ \E r \in GuildCases(punishments, case_query.guild_id) :
        /\ r.type = "ban" /\ r.visible
        /\ \/ r.expire_date = None
           \/ r.handled /\ r.expire_date.date <= now
        /\ r \notin case_query.result

\* The user has a visible jail case in the guild with no expiration date or
\* one after the time given.
Jailed(table, g, u, time) ==
    \E r \in GuildCases(table, g) :
        /\ r.type = "jail" /\ r.user_id = u /\ r.visible
        /\ (r.expire_date = None \/ r.expire_date.date > time)

\* The step of an expire_cases_by_type, and of an update_case_by_internal_id.
ExpireStep == case_query'.op = "expire_cases_by_type" /\ case_ops' = case_ops + 1
UpdateCaseStep == case_query'.op = "update_case_by_internal_id" /\ case_ops' = case_ops + 1

\* The cases expire_cases_by_type(type, g, u) does not address are unchanged.
OtherCasesUnchanged(type, g, u) ==
    /\ {r.id : r \in punishments'} = {r.id : r \in punishments}
    /\ \A r \in punishments :
        (r.type # type \/ r.guild_id # g \/ r.user_id # u) => r \in punishments'

\* C30 as stated: is_currently_jailed is true exactly for a visible jail case
\* without or with a future expiration; expire_cases_by_type changes no case
\* of another type, guild or user; and after expire_cases_by_type(jail, g, u)
\* the user stays not jailed in every step but the insert of a new jail case.
C30_JailedUntilNewCase ==
    /\ [](case_query.op = "is_currently_jailed" =>
            case_query.result =
                Jailed(punishments, case_query.guild_id, case_query.user_id, now))
    /\ [][/\ ExpireStep =>
                /\ OtherCasesUnchanged(case_query'.type, case_query'.guild_id,
                                       case_query'.user_id)
                /\ case_query'.type = "jail" =>
                    ~Jailed(punishments', case_query'.guild_id, case_query'.user_id, now')
          /\ (case_query.op = "expire_cases_by_type" /\ case_query.type = "jail") =>
                \/ ~Jailed(punishments', case_query.guild_id, case_query.user_id, now')
                \/ \E t \in Tasks :
                    /\ CaseCommitStep(t)
                    /\ call[t].type = "jail"
                    /\ call[t].guild_id = case_query.guild_id
                    /\ call[t].user_id = case_query.user_id]_vars

\* C30 amended: as above, but the user becomes jailed again only by the
\* insert of a new jail case for the user in the guild or by an
\* update_case_by_internal_id of one of the user's jail cases.
C30_JailedUntilNewOrUpdatedCase ==
    /\ [](case_query.op = "is_currently_jailed" =>
            case_query.result =
                Jailed(punishments, case_query.guild_id, case_query.user_id, now))
    /\ [][/\ ExpireStep =>
                /\ OtherCasesUnchanged(case_query'.type, case_query'.guild_id,
                                       case_query'.user_id)
                /\ case_query'.type = "jail" =>
                    ~Jailed(punishments', case_query'.guild_id, case_query'.user_id, now')
          /\ \A g \in Guilds, u \in Members :
                (~Jailed(punishments, g, u, now) /\ Jailed(punishments', g, u, now')) =>
                    \/ \E t \in Tasks :
                        /\ CaseCommitStep(t)
                        /\ call[t].type = "jail"
                        /\ call[t].guild_id = g
                        /\ call[t].user_id = u
                    \/ /\ UpdateCaseStep
                       /\ \E r \in GuildCases(punishments, g) :
                            /\ r.id = case_query'.id
                            /\ r.type = "jail" /\ r.user_id = u]_vars

\* After the expiration of user 1's jail cases a query found the user not
\* jailed, with the jail case still visible, while user 2 of the guild is
\* still jailed.
C30_Witness ==
    /\ case_query.op = "is_currently_jailed"
    /\ case_query.guild_id = 1 /\ case_query.user_id = 1
    /\ ~case_query.result
    /\ \E r \in GuildCases(punishments, 1) :
        /\ r.type = "jail" /\ r.user_id = 1 /\ r.visible /\ r.handled
        /\ r.expire_date # None
    /\ Jailed(punishments, 1, 2, now)

====
